---- MODULE Spec2Model ----
(***************************************************************************)
(* ios-simloc (src/src/ios-location.js): a Node.js command-line script     *)
(* that starts the pymobiledevice3 tunnel daemon, waits until its TCP port *)
(* accepts connections, runs the set-location or the reset subprocess and  *)
(* sends SIGTERM to the tunnel.                                            *)
(*                                                                         *)
(* One action is one turn of the Node.js event loop: the callback of the   *)
(* event together with every promise continuation (microtask) it triggers, *)
(* because JavaScript runs them to completion before the next event.       *)
(***************************************************************************)
EXTENDS Integers, Sequences, FiniteSets, TLC

\* ------------------------------------------------------------------ bounds
\* Command lines of up to MaxArgs tokens are explored exhaustively.
MaxArgs == 1
\* Longest command line given to the resolver alone (SpecArgs).
MaxArgLen == 3
\* Child exit codes range over 0..MaxExitCode.
MaxExitCode == 1
\* Number of invocations of the program in a row (SpecRerun).
MaxRuns == 2
\* waitForPort alone (SpecPoller): budgets are multiples of PollStepMs up to
\* MaxPollSteps steps.
MaxPollSteps == 2

\* ------------------------------------------------------- program constants
DEFAULT_HOST == "127.0.0.1"
DEFAULT_PORT == 49151
\* socket.setTimeout(2000): the per-attempt timeout of waitForPort.
AttemptTimeoutMs == 2000
\* await waitForPort(opts.host, opts.port, 20000, 300)
TunnelTimeoutMs == 20000
TunnelIntervalMs == 300
\* process.exit(130) / process.exit(143) in the signal handlers
ExitSIGINT == 130
ExitSIGTERM == 143
\* A driver that tries "clear" before "reset".
candidatesClearFirst == <<"clear", "reset", "unset", "stop">>
\* const candidates = ["reset", "clear", "unset", "stop"]
candidates == <<"reset", "clear", "unset", "stop">>

\* ------------------------------------------------------ JavaScript values
\* null and undefined; neither is a command-line token.
Null == "null"
Undefined == "undefined"
\* x == null
IsNullish(x) == x = Null \/ x = Undefined
\* The result of Number() on a string that is no numeral.
NaN == -1
\* Numerals that occur as tokens or configuration values.
NumeralTable == { <<"37", 37>>, <<"127", 127>>, <<"-27", -27>>,
                  <<"49151", 49151>>, <<"8100", 8100>>, <<"9000", 9000>> }
\* Number(s) for a string s.
NumberOfString(s) ==
  IF \E p \in NumeralTable : p[1] = s
  THEN (CHOOSE p \in NumeralTable : p[1] = s)[2]
  ELSE NaN
\* JSON values: a number, a string, or a missing key / null.
JNum(n) == [t |-> "num", n |-> n, s |-> ""]
JStr(s) == [t |-> "str", n |-> 0, s |-> s]
JNone == [t |-> "none", n |-> 0, s |-> ""]
\* cfg.x != null
JPresent(j) == j.t # "none"
\* truthiness of cfg.x
JTruthy(j) == (j.t = "num" /\ j.n # 0) \/ (j.t = "str" /\ j.s # "")
\* String(cfg.x) and Number(cfg.x) for a present value
JString(j) == IF j.t = "num" THEN ToString(j.n) ELSE j.s
JNumber(j) == IF j.t = "num" THEN j.n ELSE NumberOfString(j.s)

\* ------------------------------------------------------------- parseArgs
DefaultOpts ==
  [host |-> DEFAULT_HOST, port |-> DEFAULT_PORT, lat |-> Null, lon |-> Null,
   reset |-> FALSE, noTunnel |-> FALSE, config |-> Null, help |-> FALSE]

\* args[i], undefined past the end
ArgAt(args, i) == IF i <= Len(args) THEN args[i] ELSE Undefined
\* x || d for a string or undefined x
OrElse(x, d) == IF x = Undefined \/ x = "" THEN d ELSE x
\* a.startsWith("-")
StartsWithDash(a) ==
  a \in {"--host", "--port", "--lat", "--lon", "--reset", "--no-tunnel",
         "--config", "--help", "-h", "--verbose", "-27"}

\* A parser that knows the long spelling only.
isHelpFlagLongOnly(a) == a = "--help"
\* a === "--help" || a === "-h"
isHelpFlag(a) == a = "--help" \/ a = "-h"

\* One iteration of the for loop of parseArgs: the options after token i
\* and the index of the next token to look at.
parseStep(args, i, o) ==
  LET a == args[i]
      v == ArgAt(args, i + 1)
  IN  CASE a = "--host" -> [o |-> [o EXCEPT !.host = OrElse(v, DEFAULT_HOST)], i |-> i + 2]
        [] a = "--port" ->
             [o |-> [o EXCEPT !.port =
                       IF v = Undefined \/ v = "" THEN DEFAULT_PORT
                       ELSE NumberOfString(v)],
              i |-> i + 2]
        [] a = "--lat" -> [o |-> [o EXCEPT !.lat = v], i |-> i + 2]
        [] a = "--lon" -> [o |-> [o EXCEPT !.lon = v], i |-> i + 2]
        [] a = "--reset" -> [o |-> [o EXCEPT !.reset = TRUE], i |-> i + 1]
        [] a = "--no-tunnel" -> [o |-> [o EXCEPT !.noTunnel = TRUE], i |-> i + 1]
        [] a = "--config" -> [o |-> [o EXCEPT !.config = OrElse(v, Null)], i |-> i + 2]
        [] isHelpFlag(a) -> [o |-> [o EXCEPT !.help = TRUE], i |-> i + 1]
        [] OTHER ->
             IF ~StartsWithDash(a)
             THEN IF o.lat = Null THEN [o |-> [o EXCEPT !.lat = a], i |-> i + 1]
                  ELSE IF o.lon = Null THEN [o |-> [o EXCEPT !.lon = a], i |-> i + 1]
                  ELSE [o |-> o, i |-> i + 1]
             ELSE [o |-> o, i |-> i + 1]

RECURSIVE parseFrom(_, _, _)
parseFrom(args, i, o) ==
  IF i > Len(args) THEN o
  ELSE LET r == parseStep(args, i, o) IN parseFrom(args, r.i, r.o)

parseArgs(args) == parseFrom(args, 1, DefaultOpts)

\* ---------------------------------------------------------- config files
CwdSimloc == [dir |-> "cwd", name |-> "ios-simloc.config.json"]
CwdGeneric == [dir |-> "cwd", name |-> "config.json"]
HomeSimloc == [dir |-> "home", name |-> ".ios-simloc.json"]
ConfigPaths == {CwdSimloc, CwdGeneric, HomeSimloc}

\* path.resolve(cliPath): a relative path names a file of the working directory.
pathResolve(p) == [dir |-> "cwd", name |-> p]

\* A configuration object: the four keys the program reads.
CfgObject(lat, lon, host, port) == [lat |-> lat, lon |-> lon, host |-> host, port |-> port]
EmptyCfg == CfgObject(JNone, JNone, JNone, JNone)
NoPath == [dir |-> "none", name |-> ""]

Absent == [kind |-> "absent", cfg |-> EmptyCfg]
Unparsable == [kind |-> "invalid", cfg |-> EmptyCfg]
JsonFile(c) == [kind |-> "json", cfg |-> c]
\* What the file system holds at a path.
FileAt(fs, p) == IF p \in DOMAIN fs THEN fs[p] ELSE Absent
\* fs.existsSync(p)
existsSync(fs, p) == FileAt(fs, p).kind # "absent"

\* readJsonSafe(filePath): the parsed object, or null (ok = FALSE)
readJsonSafe(fs, p) ==
  IF FileAt(fs, p).kind = "json"
  THEN [ok |-> TRUE, cfg |-> FileAt(fs, p).cfg]
  ELSE [ok |-> FALSE, cfg |-> EmptyCfg]

\* A search that looks in the home directory before the working directory.
resolveConfigPathHomeFirst(fs, cliPath) ==
  IF cliPath # Null THEN pathResolve(cliPath)
  ELSE IF existsSync(fs, HomeSimloc) THEN HomeSimloc
  ELSE IF existsSync(fs, CwdSimloc) THEN CwdSimloc
  ELSE IF existsSync(fs, CwdGeneric) THEN CwdGeneric
  ELSE NoPath
\* A search that falls back to the default locations when the --config
\* path does not exist.
resolveConfigPathFallback(fs, cliPath) ==
  IF cliPath # Null /\ existsSync(fs, pathResolve(cliPath)) THEN pathResolve(cliPath)
  ELSE IF existsSync(fs, CwdSimloc) THEN CwdSimloc
  ELSE IF existsSync(fs, CwdGeneric) THEN CwdGeneric
  ELSE IF existsSync(fs, HomeSimloc) THEN HomeSimloc
  ELSE NoPath
\* resolveConfigPath(cliPath); NoPath is its null
resolveConfigPath(fs, cliPath) ==
  IF cliPath # Null THEN pathResolve(cliPath)
  ELSE IF existsSync(fs, CwdSimloc) THEN CwdSimloc
  ELSE IF existsSync(fs, CwdGeneric) THEN CwdGeneric
  ELSE IF existsSync(fs, HomeSimloc) THEN HomeSimloc
  ELSE NoPath

\* A config file whose host replaces whatever host the options hold.
applyConfigHostAlways(fs, o) ==
  LET cfgPath == resolveConfigPath(fs, o.config)
      r == readJsonSafe(fs, cfgPath)
      cfg == r.cfg
  IN  IF cfgPath = NoPath THEN [opts |-> o, loaded |-> NoPath, read |-> NoPath]
      ELSE IF ~r.ok THEN [opts |-> o, loaded |-> NoPath, read |-> cfgPath]
      ELSE [opts |->
              [o EXCEPT
                 !.lat = IF IsNullish(o.lat) /\ JPresent(cfg.lat)
                         THEN JString(cfg.lat) ELSE o.lat,
                 !.lon = IF IsNullish(o.lon) /\ JPresent(cfg.lon)
                         THEN JString(cfg.lon) ELSE o.lon,
                 !.host = IF JTruthy(cfg.host) THEN JString(cfg.host) ELSE o.host,
                 !.port = IF o.port = DEFAULT_PORT /\ JPresent(cfg.port)
                          THEN JNumber(cfg.port) ELSE o.port],
            loaded |-> cfgPath, read |-> cfgPath]
\* applyConfigDefaults(opts): the options afterwards, the path it returns
\* (NoPath when nothing was loaded) and the path it read (NoPath when none).
applyConfigDefaults(fs, o) ==
  LET cfgPath == resolveConfigPath(fs, o.config)
      r == readJsonSafe(fs, cfgPath)
      cfg == r.cfg
  IN  IF cfgPath = NoPath THEN [opts |-> o, loaded |-> NoPath, read |-> NoPath]
      ELSE IF ~r.ok THEN [opts |-> o, loaded |-> NoPath, read |-> cfgPath]
      ELSE [opts |->
              [o EXCEPT
                 !.lat = IF IsNullish(o.lat) /\ JPresent(cfg.lat)
                         THEN JString(cfg.lat) ELSE o.lat,
                 !.lon = IF IsNullish(o.lon) /\ JPresent(cfg.lon)
                         THEN JString(cfg.lon) ELSE o.lon,
                 !.host = IF o.host = DEFAULT_HOST /\ JTruthy(cfg.host)
                          THEN JString(cfg.host) ELSE o.host,
                 !.port = IF o.port = DEFAULT_PORT /\ JPresent(cfg.port)
                          THEN JNumber(cfg.port) ELSE o.port],
            loaded |-> cfgPath, read |-> cfgPath]

\* ------------------------------------------------------------ waitForPort
\* The promise of waitForPort(host, port, timeoutMs, intervalMs): phase is
\* "connecting" while a socket is trying, "sleeping" while the retry timer
\* is pending; elapsed is Date.now() - start at the last event.  sockets is
\* the number of sockets that are not destroyed, timers the number of retry
\* timers that are armed, settles the number of resolve/reject calls made.
NewPoller(timeoutMs, intervalMs) ==
  [phase |-> "idle", elapsed |-> 0, timeoutMs |-> timeoutMs, intervalMs |-> intervalMs,
   sockets |-> 0, timers |-> 0, settles |-> 0]

\* check(): a new socket with its per-attempt timeout starts to connect
check(p) == [p EXCEPT !.phase = "connecting", !.sockets = @ + 1]

\* A tryAgain that gives up when the next retry would start past the budget.
tryAgainEager(p) ==
  IF p.elapsed + p.intervalMs > p.timeoutMs
  THEN [p EXCEPT !.phase = "rejected", !.settles = @ + 1]
  ELSE [p EXCEPT !.phase = "sleeping", !.timers = @ + 1]
\* tryAgain(): reject when the budget is exceeded, else arm the retry timer
tryAgain(p) ==
  IF p.elapsed > p.timeoutMs
  THEN [p EXCEPT !.phase = "rejected", !.settles = @ + 1]
  ELSE [p EXCEPT !.phase = "sleeping", !.timers = @ + 1]

\* socket "connect" after d ms: socket.destroy(); resolve(true)
onConnect(p, d) ==
  [p EXCEPT !.phase = "resolved", !.elapsed = @ + d, !.sockets = @ - 1,
            !.settles = @ + 1]
\* An "error" handler that leaves the socket open.
onErrorNoDestroy(p, d) == tryAgain([p EXCEPT !.elapsed = @ + d])
\* socket "error" after d ms (d below the per-attempt timeout):
\* socket.destroy(); tryAgain()
onError(p, d) == tryAgain([p EXCEPT !.elapsed = @ + d, !.sockets = @ - 1])
\* A per-attempt timeout that gives up at once instead of retrying.
onTimeoutFatal(p) ==
  [p EXCEPT !.phase = "rejected", !.elapsed = @ + AttemptTimeoutMs,
            !.sockets = @ - 1, !.settles = @ + 1]
\* socket "timeout": the per-attempt timeout passed without a connection:
\* socket.destroy(); tryAgain()
onTimeout(p) ==
  tryAgain([p EXCEPT !.elapsed = @ + AttemptTimeoutMs, !.sockets = @ - 1])
\* the retry timer fires intervalMs after tryAgain armed it
onTimer(p) == check([p EXCEPT !.elapsed = @ + p.intervalMs, !.timers = @ - 1])
\* Once the promise is settled nothing reads the clock of the closure again.
settled(p) == [p EXCEPT !.elapsed = 0]

\* ------------------------------------------------------------------ state
VARIABLES
  argv,        \* process.argv.slice(2)
  files,       \* the configuration files on disk
  run,         \* which invocation of the program this is
  prev,        \* how the previous invocation ended
  pc,          \* where the async main function is suspended
  opts,        \* the options record of main
  out,         \* what the program logged, in order
  tunnelProc,  \* main's tunnelProc: the tunnel child process
  handlers,    \* whether the SIGINT/SIGTERM handlers are registered
  poller,      \* the waitForPort promise
  fg,          \* the foreground child process (set or a reset candidate)
  launched,    \* the subcommands launched so far, in order
  results,     \* how each launched subcommand ended
  kills,       \* the process.kill(tunnelProc.pid, "SIGTERM") calls made
  exitCode,    \* process.exitCode (0 while unset)
  status,      \* the exit status of the process once pc = "exited"
  sig,         \* the signal the process received, if any
  err,         \* the message of the error caught at the top level
  cfg          \* what applyConfigDefaults did: called, path read, path loaded

\* What an invocation is given and never writes.
env == <<argv, files, run, prev>>

vars == <<argv, files, run, prev, pc, opts, out, tunnelProc, handlers, poller, fg,
          launched, results, kills, exitCode, status, sig, err, cfg>>

\* ---------------------------------------------------------------- inputs
Tokens == {"--lat", "--lon", "--host", "--reset", "--no-tunnel", "--config",
           "--help", "-h", "--verbose", "37", "-27"}

RECURSIVE SeqsUpTo(_, _)
SeqsUpTo(S, n) ==
  IF n = 0 THEN {<<>>}
  ELSE LET shorter == SeqsUpTo(S, n - 1)
       IN  shorter \cup {Append(q, t) : q \in shorter, t \in S}

\* The command lines of the header comment, the README and the tests.
DocumentedArgvs ==
  { <<"--lat", "37", "--lon", "127">>,
    <<"37", "127">>,
    <<"--reset">>,
    <<"--no-tunnel", "--lat", "-27", "--lon", "127">>,
    <<"--no-tunnel", "37", "127">>,
    <<"--no-tunnel", "--reset">>,
    <<"--config", "config.json">> }

Argvs == SeqsUpTo(Tokens, MaxArgs) \cup DocumentedArgvs

\* The configuration of the README, and one that gives the latitude only.
ReadmeCfg == CfgObject(JNum(37), JNum(127), JStr("127.0.0.1"), JNum(49151))
LatOnlyCfg == CfgObject(JNum(37), JNone, JNone, JNone)
NoFiles == [p \in ConfigPaths |-> Absent]
FileSystems ==
  { NoFiles,
    [NoFiles EXCEPT ![CwdGeneric] = JsonFile(ReadmeCfg)],
    [NoFiles EXCEPT ![CwdSimloc] = JsonFile(LatOnlyCfg)] }

\* What a captured child may write to its standard error before it exits.
StderrChunks == {"boom\n", "\n"}
\* A message built from the captured text as it is.
trimNothing(s) == s
\* s.trim()
trim(s) == IF s = "boom\n" THEN "boom" ELSE IF s = "\n" THEN "" ELSE s

NoTunnel == [spawned |-> FALSE, pid |-> FALSE, killed |-> FALSE, running |-> FALSE]
NoConfig == [called |-> FALSE, read |-> NoPath, loaded |-> NoPath]
NoChild == [kind |-> "none", idx |-> 0, sub |-> "", running |-> FALSE, stderr |-> "",
            wrote |-> ""]

InitRun ==
  /\ pc = "init"
  /\ opts = DefaultOpts
  /\ out = <<>>
  /\ tunnelProc = NoTunnel
  /\ handlers = FALSE
  /\ poller = NewPoller(0, 0)
  /\ fg = NoChild
  /\ launched = <<>>
  /\ results = <<>>
  /\ kills = <<>>
  /\ exitCode = 0
  /\ status = 0
  /\ sig = "none"
  /\ err = <<>>
  /\ cfg = NoConfig

NoPrev == [status |-> 0, err |-> <<>>, launched |-> <<>>]

Init ==
  /\ argv \in Argvs
  /\ files \in FileSystems
  /\ run = 1
  /\ prev = NoPrev
  /\ InitRun

\* ------------------------------------------------- fragments of handlers
\* A guard that reads the killed flag the wrong way round.
mayKillInverted(tp) == tp.spawned /\ tp.killed /\ tp.pid
\* The guard of clean() and of the finally block before process.kill.
mayKill(tp) == tp.spawned /\ ~tp.killed /\ tp.pid

\* process.kill(tunnelProc.pid, "SIGTERM"), recorded with who called it,
\* whether the tunnel was still running and whether a foreground child was.
killCall(by, fgAfter) ==
  [by |-> by, tunnelRunning |-> tunnelProc.running, fgRunning |-> fgAfter.running]

\* printUsageAndExit() after the program logged `log`
printUsageAndExit(log) ==
  /\ out' = log \o << <<"Usage:">> >>
  /\ pc' = "exited"
  /\ status' = 1

\* finally { ... }: the async main function is over afterwards.
Finally ==
  /\ kills' = IF mayKill(tunnelProc)
              THEN Append(kills, killCall("finally", fg'))
              ELSE kills
  /\ pc' = "done"

\* A catch block that sets the generic exit code for every failure.
catchExitCodeGeneric(doReset) == 1
\* A catch block with the two exit codes the wrong way round.
catchExitCodeSwapped(doReset) == IF doReset THEN 1 ELSE 2
\* The exit code the catch block sets.
catchExitCode(doReset) == IF doReset THEN 2 ELSE 1

\* catch (err) { ... } finally { ... } after the program logged `log`
CatchFinally(log, e) ==
  /\ err' = e
  /\ out' = log \o << <<IF opts.reset THEN "[reset] failed:" ELSE "[error]">> \o e >>
  /\ exitCode' = catchExitCode(opts.reset)
  /\ Finally

\* The child process object spawn() returns for subcommand sub.
childOf(kind, idx, sub) ==
  [kind |-> kind, idx |-> idx, sub |-> sub, running |-> TRUE, stderr |-> "",
   wrote |-> ""]

\* A driver that does not await tryRun: the next candidate is started
\* together with this one.
tryRunNoAwait(log, idx) ==
  /\ fg' = childOf("reset", IF idx < Len(candidates) THEN idx + 1 ELSE idx,
                   candidates[IF idx < Len(candidates) THEN idx + 1 ELSE idx])
  /\ launched' = IF idx < Len(candidates)
                 THEN launched \o <<candidates[idx], candidates[idx + 1]>>
                 ELSE Append(launched, candidates[idx])
  /\ out' = log \o << <<"[reset] running:", candidates[idx]>> >>
  /\ pc' = "child"
\* tryRun(candidates[idx]) up to the point where its promise is pending
tryRun(log, idx) ==
  /\ fg' = childOf("reset", idx, candidates[idx])
  /\ launched' = Append(launched, candidates[idx])
  /\ out' = log \o << <<"[reset] running:", candidates[idx]>> >>
  /\ pc' = "child"

\* runSimulateLocation(lat, lon) up to the point where its promise is pending
runSimulateLocation(log) ==
  /\ fg' = childOf("set", 0, "set")
  /\ launched' = Append(launched, "set")
  /\ out' = log \o << <<"[simulate] running:", "set", "--">> >>
  /\ pc' = "child"

\* if (doReset) await runResetLocation(); else await runSimulateLocation(...)
Dispatch(o, log) ==
  IF o.reset THEN tryRun(log, 1) ELSE runSimulateLocation(log)

\* ----------------------------------------------------------------- main
\* A check that asks for the config file only when both are missing.
coordsMissingBoth(o) == IsNullish(o.lat) /\ IsNullish(o.lon)
\* opts.lat == null || opts.lon == null
coordsMissing(o) == IsNullish(o.lat) \/ IsNullish(o.lon)
\* A main that ignores --no-tunnel.
skipTunnelNever(o) == FALSE
\* A main that never waits for the tunnel.
skipTunnelAlways(o) == TRUE
\* The else branch of if (!opts.noTunnel): the tunnel is skipped.
skipTunnel(o) == o.noTunnel
\* code === 0 in the "exit" handlers
exitOk(code) == code = 0

\* The first turn: parseArgs, the usage checks, the config file, and then
\* either spawnTunneld + the signal handlers + the first check() of
\* waitForPort, or the skip notice and the first foreground child.
\* tunnelOk says whether the operating system could start sudo.
Start(tunnelOk) ==
  /\ pc = "init"
  /\ LET parsed == parseArgs(argv)
         usageFirst == parsed.help \/ Len(argv) = 0
         needCfg == ~usageFirst /\ ~parsed.reset /\ coordsMissing(parsed)
         c == applyConfigDefaults(files, parsed)
         o == IF needCfg THEN c.opts ELSE parsed
         log == IF needCfg /\ c.loaded # NoPath
                THEN << <<"[config] loaded:", c.loaded.name>> >> ELSE <<>>
     IN  /\ opts' = o
         /\ cfg' = IF needCfg
                   THEN [called |-> TRUE, read |-> c.read, loaded |-> c.loaded]
                   ELSE cfg
         /\ IF usageFirst \/ (needCfg /\ coordsMissing(o))
            THEN /\ printUsageAndExit(log)
                 /\ UNCHANGED <<tunnelProc, handlers, poller, fg, launched>>
            ELSE IF ~skipTunnel(o)
            THEN /\ tunnelProc' = [spawned |-> TRUE, pid |-> tunnelOk,
                                   killed |-> FALSE, running |-> tunnelOk]
                 /\ handlers' = TRUE
                 /\ poller' = check(NewPoller(TunnelTimeoutMs, TunnelIntervalMs))
                 /\ UNCHANGED <<fg, launched>>
                 /\ IF tunnelOk
                    THEN /\ out' = log \o << <<"[tunneld] launching:">>,
                                             <<"[tunneld] waiting for">> >>
                         /\ pc' = "waitPort"
                         /\ UNCHANGED status
                    ELSE \* the child emits "error", nobody listens: node dies
                         /\ out' = log \o << <<"[tunneld] launching:">>,
                                             <<"[tunneld] waiting for">> >>
                         /\ pc' = "exited"
                         /\ status' = 1
            ELSE /\ Dispatch(o, log \o << <<"[tunneld] skipped (--no-tunnel).">> >>)
                 /\ UNCHANGED <<tunnelProc, handlers, poller, status>>
  /\ UNCHANGED <<env, results, kills, exitCode, sig, err>>

\* waitForPort resolved: "[tunneld] ready." and the foreground child starts.
PortConnect ==
  /\ pc = "waitPort"
  /\ poller.phase = "connecting"
  /\ poller' = settled(onConnect(poller, 0))
  /\ Dispatch(opts, Append(out, <<"[tunneld] ready.">>))
  /\ UNCHANGED <<env, opts, tunnelProc, handlers, results, kills,
                 exitCode, status, sig, err, cfg>>

\* What main does once an attempt of waitForPort failed and left the poller p.
AfterAttempt(p) ==
  /\ poller' = p
  /\ UNCHANGED fg
  /\ IF p.phase = "rejected"
     THEN CatchFinally(out, <<"Timeout:", "not ready within", ToString(p.timeoutMs)>>)
     ELSE UNCHANGED <<pc, out, kills, exitCode, err>>
  /\ UNCHANGED <<env, opts, tunnelProc, handlers, launched, results,
                 status, sig, cfg>>

\* The connection is refused at once (nothing listens on host:port).
PortRefused ==
  /\ pc = "waitPort"
  /\ poller.phase = "connecting"
  /\ AfterAttempt(onError(poller, 0))

\* The connection attempt gets no answer within the per-attempt timeout.
PortTimeout ==
  /\ pc = "waitPort"
  /\ poller.phase = "connecting"
  /\ AfterAttempt(onTimeout(poller))

\* setTimeout(check, intervalMs) fires.
RetryTimer ==
  /\ pc = "waitPort"
  /\ poller.phase = "sleeping"
  /\ poller' = onTimer(poller)
  /\ UNCHANGED <<env, pc, opts, out, tunnelProc, handlers, fg,
                 launched, results, kills, exitCode, status, sig, err, cfg>>

\* The child writes `chunk` to its standard error: the text is in the pipe,
\* no handler of the program has run yet.
ChildWrites(chunk) ==
  /\ pc = "child"
  /\ fg.running
  /\ fg.wrote = ""
  /\ fg' = [fg EXCEPT !.wrote = chunk]
  /\ UNCHANGED <<env, pc, opts, out, tunnelProc, handlers, poller,
                 launched, results, kills, exitCode, status, sig, err, cfg>>

\* child.stderr "data": stderr += data.toString().  The event is delivered
\* in its own turn, before or after the turn of the child's "exit" event;
\* once the "exit" handler has run nothing reads the text any more.
StderrData(chunk) ==
  /\ pc = "child"
  /\ fg.running
  /\ fg.wrote = chunk
  /\ fg.stderr = ""
  /\ fg' = [fg EXCEPT !.stderr = chunk]
  /\ UNCHANGED <<env, pc, opts, out, tunnelProc, handlers, poller,
                 launched, results, kills, exitCode, status, sig, err, cfg>>

\* A driver that tries the failed candidate again instead of the next one.
NextCandidateRetry(d) ==
  LET log == out \o << d, <<"[reset]", fg.sub, "failed, trying next if available...">> >>
  IN  /\ tryRun(log, fg.idx)
      /\ UNCHANGED <<kills, exitCode, err>>
\* What the reset driver does after candidate fg.idx failed with log line d.
NextCandidate(d) ==
  LET log == out \o << d, <<"[reset]", fg.sub, "failed, trying next if available...">> >>
  IN  IF fg.idx < Len(candidates)
      THEN /\ tryRun(log, fg.idx + 1)
           /\ UNCHANGED <<kills, exitCode, err>>
      ELSE /\ fg' = [fg EXCEPT !.running = FALSE]
           /\ UNCHANGED launched
           /\ CatchFinally(log, <<"simulate-location reset/clear failed.">>)

\* child "exit" with exit code `code`, for the set child and a reset candidate
ChildExit(code) ==
  /\ pc = "child"
  /\ fg.running
  /\ results' = Append(results, IF exitOk(code) THEN "ok" ELSE "failed")
  /\ IF exitOk(code)
     THEN /\ fg' = [fg EXCEPT !.running = FALSE]
          /\ out' = Append(out, IF fg.kind = "reset" THEN <<"[reset] done.">>
                                ELSE <<"[simulate] done.">>)
          /\ Finally
          /\ UNCHANGED <<launched, exitCode, err>>
     ELSE IF fg.kind = "set"
     THEN /\ fg' = [fg EXCEPT !.running = FALSE]
          /\ UNCHANGED launched
          /\ CatchFinally(out,
               IF trim(fg.stderr) # "" THEN <<trim(fg.stderr)>>
               ELSE <<"simulate-location exited with code", ToString(code)>>)
     ELSE NextCandidate(
            IF trim(fg.stderr) # ""
            THEN <<"[reset]", fg.sub, "failed:", trim(fg.stderr)>>
            ELSE <<"[reset]", fg.sub, "failed:", "exit code", ToString(code)>>)
  /\ UNCHANGED <<env, opts, tunnelProc, handlers, poller, status,
                 sig, cfg>>

\* child "error": pymobiledevice3 could not be started
ChildError ==
  /\ pc = "child"
  /\ fg.running
  /\ fg.stderr = ""
  /\ fg.wrote = ""
  /\ results' = Append(results, "nostart")
  /\ IF fg.kind = "set"
     THEN /\ fg' = [fg EXCEPT !.running = FALSE]
          /\ UNCHANGED launched
          /\ CatchFinally(out, <<"Failed to start pymobiledevice3:">>)
     ELSE NextCandidate(<<"[reset]", fg.sub, "error:">>)
  /\ UNCHANGED <<env, opts, tunnelProc, handlers, poller, status,
                 sig, cfg>>

\* Handlers that both exit with the status of SIGINT.
signalExitSame(s) == ExitSIGINT
\* The exit status of process.exit(...) in the handler of signal s; node's
\* default handlers exit with the same 128 + signal number.
signalExit(s) == IF s = "SIGINT" THEN ExitSIGINT ELSE ExitSIGTERM

\* SIGINT or SIGTERM arrives: clean() and process.exit when the handlers are
\* registered, node's default otherwise.
Signal(s) ==
  /\ pc # "exited"
  /\ sig' = s
  /\ kills' = IF handlers /\ mayKill(tunnelProc)
              THEN Append(kills, killCall("clean", fg))
              ELSE kills
  /\ status' = signalExit(s)
  /\ pc' = "exited"
  /\ UNCHANGED <<env, opts, out, tunnelProc, handlers, poller, fg,
                 launched, results, exitCode, err, cfg>>

\* The tunnel process ends, of itself or because of a SIGTERM.
TunnelExit ==
  /\ pc # "exited"
  /\ tunnelProc.running
  /\ tunnelProc' = [tunnelProc EXCEPT !.running = FALSE]
  /\ UNCHANGED <<env, pc, opts, out, handlers, poller, fg, launched,
                 results, kills, exitCode, status, sig, err, cfg>>

\* The event loop is empty: main is over and no child process is left, so
\* node exits with process.exitCode.
ProcessExit ==
  /\ pc = "done"
  /\ ~tunnelProc.running
  /\ pc' = "exited"
  /\ status' = exitCode
  /\ UNCHANGED <<env, opts, out, tunnelProc, handlers, poller, fg,
                 launched, results, kills, exitCode, sig, err, cfg>>

Next ==
  \/ \E tunnelOk \in BOOLEAN : Start(tunnelOk)
  \/ PortConnect
  \/ PortRefused
  \/ PortTimeout
  \/ RetryTimer
  \/ \E chunk \in StderrChunks : ChildWrites(chunk)
  \/ \E chunk \in StderrChunks : StderrData(chunk)
  \/ \E code \in 0..MaxExitCode : ChildExit(code)
  \/ ChildError
  \/ \E s \in {"SIGINT", "SIGTERM"} : Signal(s)
  \/ TunnelExit
  \/ ProcessExit

Spec == Init /\ [][Next]_vars

\* -------------------------------------------- scheduling: SpecLive
\* What the event loop and the operating system guarantee: main runs, a
\* connection attempt ends (connected, refused or timed out), an armed
\* timer fires, a foreground child that was launched ends, and node exits
\* once main is over and no child handle is left.  Nothing makes the tunnel
\* process end (a SIGTERM can fail with EPERM or ESRCH, or be ignored), and
\* nothing makes a signal arrive.
Fairness ==
  /\ WF_vars(\E tunnelOk \in BOOLEAN : Start(tunnelOk))
  /\ WF_vars(PortConnect \/ PortRefused \/ PortTimeout)
  /\ WF_vars(RetryTimer)
  /\ WF_vars(ChildError \/ \E code \in 0..MaxExitCode : ChildExit(code))
  /\ WF_vars(ProcessExit)

SpecLive == Init /\ [][Next]_vars /\ Fairness

\* ------------------------------------------- the resolver alone: SpecArgs
\* Every command line of up to MaxArgLen tokens, and the first turn of main.
InitArgs ==
  /\ argv \in SeqsUpTo(Tokens, MaxArgLen)
  /\ files \in FileSystems
  /\ run = 1
  /\ prev = NoPrev
  /\ InitRun

NextArgs == \E tunnelOk \in BOOLEAN : Start(tunnelOk)

SpecArgs == InitArgs /\ [][NextArgs]_vars

\* ---------------------------------------- waitForPort alone: SpecPoller
\* function waitForPort(host, port, timeoutMs = 15000, intervalMs = 250)
DefaultTimeoutMs == 15000
DefaultIntervalMs == 250

PollTimeouts ==
  {k * AttemptTimeoutMs : k \in 0..MaxPollSteps} \cup {DefaultTimeoutMs, TunnelTimeoutMs}
PollIntervals == {DefaultIntervalMs, TunnelIntervalMs}
\* How long after socket.connect the "error" or "connect" event comes.
EventDelays == {0, 1, AttemptTimeoutMs - 1}

InitPoller ==
  /\ argv = <<>>
  /\ files = NoFiles
  /\ run = 1
  /\ prev = NoPrev
  /\ opts = DefaultOpts
  /\ out = <<>>
  /\ tunnelProc = NoTunnel
  /\ handlers = FALSE
  /\ fg = NoChild
  /\ launched = <<>>
  /\ results = <<>>
  /\ kills = <<>>
  /\ exitCode = 0
  /\ status = 0
  /\ sig = "none"
  /\ err = <<>>
  /\ cfg = NoConfig
  /\ pc = "waitForPort"
  /\ \E t \in PollTimeouts, i \in PollIntervals : poller = check(NewPoller(t, i))

pollerFrame ==
  UNCHANGED <<env, pc, opts, out, tunnelProc, handlers, fg, launched, results,
              kills, exitCode, status, sig, err, cfg>>

WfpConnect(d) ==
  /\ pc = "waitForPort"
  /\ poller.phase = "connecting"
  /\ poller' = onConnect(poller, d)
  /\ pollerFrame

WfpError(d) ==
  /\ pc = "waitForPort"
  /\ poller.phase = "connecting"
  /\ poller' = onError(poller, d)
  /\ pollerFrame

WfpTimeout ==
  /\ pc = "waitForPort"
  /\ poller.phase = "connecting"
  /\ poller' = onTimeout(poller)
  /\ pollerFrame

WfpTimer ==
  /\ pc = "waitForPort"
  /\ poller.phase = "sleeping"
  /\ poller' = onTimer(poller)
  /\ pollerFrame

NextPoller ==
  \/ \E d \in EventDelays : WfpConnect(d)
  \/ \E d \in EventDelays : WfpError(d)
  \/ WfpTimeout
  \/ WfpTimer

SpecPoller == InitPoller /\ [][NextPoller]_vars

\* ------------------------------------- invocations in a row: SpecRerun
\* The command lines that ask for a reset.
ResetArgvs == { <<"--no-tunnel", "--reset">>, <<"--reset">> }

InitRerun ==
  /\ argv \in ResetArgvs
  /\ files = NoFiles
  /\ run = 1
  /\ prev = NoPrev
  /\ InitRun

\* The user runs the same command line again after the process has exited.
\* The program writes no file, so the new process starts as the first did.
Reinvoke ==
  /\ pc = "exited"
  /\ run < MaxRuns
  /\ run' = run + 1
  /\ prev' = [status |-> status, err |-> err, launched |-> launched]
  /\ pc' = "init"
  /\ opts' = DefaultOpts
  /\ out' = <<>>
  /\ tunnelProc' = NoTunnel
  /\ handlers' = FALSE
  /\ poller' = NewPoller(0, 0)
  /\ fg' = NoChild
  /\ launched' = <<>>
  /\ results' = <<>>
  /\ kills' = <<>>
  /\ exitCode' = 0
  /\ status' = 0
  /\ sig' = "none"
  /\ err' = <<>>
  /\ cfg' = NoConfig
  /\ UNCHANGED <<argv, files>>

NextRerun == Next \/ Reinvoke

SpecRerun == InitRerun /\ [][NextRerun]_vars

\* -------------------------------------- the reset driver: SpecDriver
\* runResetLocation as main calls it, with and without a tunnel, in a run
\* that no signal cuts short; every launched child ends.
InitDriver ==
  /\ argv \in ResetArgvs
  /\ files = NoFiles
  /\ run = 1
  /\ prev = NoPrev
  /\ InitRun

NextDriver ==
  \/ \E tunnelOk \in BOOLEAN : Start(tunnelOk)
  \/ PortConnect
  \/ PortRefused
  \/ PortTimeout
  \/ RetryTimer
  \/ \E chunk \in StderrChunks : ChildWrites(chunk)
  \/ \E chunk \in StderrChunks : StderrData(chunk)
  \/ \E code \in 0..MaxExitCode : ChildExit(code)
  \/ ChildError
  \/ TunnelExit
  \/ ProcessExit

SpecDriver == InitDriver /\ [][NextDriver]_vars /\ Fairness

\* ------------------------------------ the config file alone: SpecConfig
\* A path given with --config that is none of the default locations.
ExplicitPath == pathResolve("my.json")
\* A config file with every key, and values that differ from the defaults.
FullCfg == CfgObject(JNum(37), JNum(127), JStr("10.0.0.1"), JNum(8100))
\* A config file that gives the longitude only.
LonOnlyCfg == CfgObject(JNone, JNum(-27), JNone, JNone)
\* What a path may hold: nothing, text that is no JSON, or a JSON object.
FileContents == {Absent, Unparsable, JsonFile(FullCfg), JsonFile(LonOnlyCfg)}
ConfigFileSystems == [ConfigPaths \cup {ExplicitPath} -> FileContents]

\* Command lines that leave a coordinate unset, with and without --config,
\* with host and port given or not, and two that need no config file.
ConfigArgvs ==
  { <<"--no-tunnel">>,
    <<"37">>,
    <<"--lat", "37">>,
    <<"--lon", "127">>,
    <<"--lat">>,
    <<"--config", "my.json">>,
    <<"--config", "my.json", "37">>,
    <<"--config", "config.json">>,
    <<"--config">>,
    <<"--host", "127.0.0.1", "37">>,
    <<"--host", "192.168.0.9", "37">>,
    <<"--port", "49151", "37">>,
    <<"--port", "9000", "37">>,
    <<"--port", "9000", "--host", "192.168.0.9">>,
    <<"--reset">>,
    <<"--lat", "37", "--lon", "127">> }

InitConfig ==
  /\ argv \in ConfigArgvs
  /\ files \in ConfigFileSystems
  /\ run = 1
  /\ prev = NoPrev
  /\ InitRun

NextConfig == \E tunnelOk \in BOOLEAN : Start(tunnelOk)

SpecConfig == InitConfig /\ [][NextConfig]_vars

\* ============================================================== claims
IsPrefix(a, b) == Len(a) <= Len(b) /\ \A i \in 1..Len(a) : a[i] = b[i]
Logged(line) == \E i \in DOMAIN out : out[i] = line
\* The requested operation succeeded: the last child exited with code 0.
Succeeded == results # <<>> /\ results[Len(results)] = "ok"
\* Every candidate of the reset driver was launched and none succeeded.
Exhausted ==
  /\ Len(launched) = 4
  /\ Len(results) = 4
  /\ \A i \in 1..4 : results[i] # "ok"

\* C1: the reset driver launches its candidates in the order reset, clear,
\* unset, stop; a candidate is launched only when every earlier one has
\* finished without success; once a candidate exits with code 0 nothing is
\* launched after it and the driver reports success ("[reset] done.", no
\* error caught).
C1_ResetOrder ==
  opts.reset =>
    /\ IsPrefix(launched, <<"reset", "clear", "unset", "stop">>)
    /\ Len(results) = IF fg.running THEN Len(launched) - 1 ELSE Len(launched)
    /\ \A i \in 1..Len(launched) - 1 : i <= Len(results) /\ results[i] # "ok"
    /\ \A i \in DOMAIN results :
         results[i] = "ok" =>
           /\ i = Len(launched)
           /\ ~fg.running
           /\ pc \in {"done", "exited"}
           /\ Logged(<<"[reset] done.">>)
           /\ err = <<>>
           /\ exitCode = 0

\* The fallback of the test: "reset" fails, "clear" succeeds.
C1_Witness ==
  /\ opts.reset
  /\ launched = <<"reset", "clear">>
  /\ results = <<"failed", "ok">>
  /\ pc = "done"

\* C2: when the tunnel is not skipped, the set or reset child is launched
\* only after waitForPort saw a connection succeed, and after a timeout of
\* waitForPort no set or reset child is launched at all.
C2_ReadyBeforeLaunch ==
  (pc # "init" /\ ~opts.noTunnel) =>
    /\ launched # <<>> => poller.phase = "resolved"
    /\ fg.kind # "none" => poller.phase = "resolved"
    /\ poller.phase = "rejected" => launched = <<>> /\ ~fg.running

C2_Witness ==
  /\ ~opts.noTunnel
  /\ tunnelProc.spawned
  /\ poller.phase = "resolved"
  /\ launched = <<"set">>
  /\ fg.running

\* C3: whenever main is over (success, readiness timeout, set failure,
\* reset exhaustion) and a tunnel process was started, the finally block
\* sent it SIGTERM, and no foreground child was running any more.
C3_Cleanup ==
  (pc = "done" /\ tunnelProc.spawned /\ tunnelProc.pid) =>
    /\ ~fg.running
    /\ kills # <<>>
    /\ kills[Len(kills)].by = "finally"
    /\ ~kills[Len(kills)].fgRunning

\* Reset exhaustion with a tunnel that is still running when main ends.
C3_Witness ==
  /\ pc = "done"
  /\ Exhausted
  /\ tunnelProc.running
  /\ kills = << [by |-> "finally", tunnelRunning |-> TRUE, fgRunning |-> FALSE] >>

\* C4: whenever SIGINT or SIGTERM is received, at whatever step, the tunnel
\* process (if one was started) is sent SIGTERM by the handler and the
\* process exits, with status 130 for SIGINT and 143 for SIGTERM.
C4_SignalExit ==
  sig # "none" =>
    /\ pc = "exited"
    /\ status = IF sig = "SIGINT" THEN 130 ELSE 143
    /\ (tunnelProc.spawned /\ tunnelProc.pid) =>
         kills # <<>> /\ kills[Len(kills)].by = "clean"

\* SIGTERM while a reset candidate runs behind a live tunnel.
C4_Witness ==
  /\ sig = "SIGTERM"
  /\ status = 143
  /\ fg.running
  /\ fg.kind = "reset"
  /\ tunnelProc.running
  /\ kills[Len(kills)].by = "clean"

\* C5: when waitForPort(host, port, timeout, interval) rejects because the
\* port never accepted a connection, it does so no earlier than timeout and
\* no later than timeout + interval + the per-attempt timeout (2000 ms)
\* after it started, whatever mix of refused and timed-out attempts.
C5_TimeoutBounds ==
  (pc = "waitForPort" /\ poller.phase = "rejected") =>
    /\ poller.elapsed >= poller.timeoutMs
    /\ poller.elapsed <= poller.timeoutMs + poller.intervalMs + 2000

\* The latest possible rejection: an attempt ends exactly at the budget, the
\* retry waits the interval and the last attempt runs into its own timeout.
C5_Witness ==
  /\ pc = "waitForPort"
  /\ poller.phase = "rejected"
  /\ poller.timeoutMs = 4000
  /\ poller.elapsed = poller.timeoutMs + poller.intervalMs + 2000

\* The error runResetLocation throws when no candidate succeeded.
AggregateError == <<"simulate-location reset/clear failed.">>

\* C6: when all four reset candidates fail (non-zero exit or failure to
\* start), the reset fails with the aggregate error and the process ends
\* with exit status 2; an invocation that follows another one tries the
\* four candidates again from "reset" and, failing the same way, ends with
\* the same error and the same status.
C6_ResetExhaustion ==
  Exhausted =>
    /\ launched = <<"reset", "clear", "unset", "stop">>
    /\ pc \in {"done", "exited"}
    /\ err = AggregateError
    /\ Logged(<<"[reset] failed:">> \o AggregateError)
    /\ exitCode = 2
    /\ (pc = "exited" /\ sig = "none") => status = 2
    /\ (run > 1 /\ prev.err = AggregateError) =>
         /\ err = prev.err
         /\ launched = prev.launched
         /\ (pc = "exited" /\ sig = "none" /\ prev.status \notin {130, 143}) =>
              status = prev.status

\* The second of two invocations that both exhausted the candidates.
C6_Witness ==
  /\ run = 2
  /\ prev = [status |-> 2, err |-> AggregateError,
             launched |-> <<"reset", "clear", "unset", "stop">>]
  /\ Exhausted
  /\ results = <<"failed", "nostart", "failed", "failed">>
  /\ pc = "exited"
  /\ status = 2

\* How a run can fail.
UsageShown == Logged(<<"Usage:">>)
TunnelStartFailed == tunnelProc.spawned /\ ~tunnelProc.pid
ReadinessTimeout == pc # "waitForPort" /\ poller.phase = "rejected"
SetFailed == launched = <<"set">> /\ results \in {<<"failed">>, <<"nostart">>}
\* The process exited of itself, not through a signal.
ExitedUnsignalled == pc = "exited" /\ sig = "none"

\* C7 as stated: the exit status is 0 exactly when the operation succeeded,
\* 2 only when the reset operation itself failed, and 1 for every other
\* failure (usage error, readiness timeout, set-location failure).
C7_AsStated ==
  ExitedUnsignalled =>
    /\ status = 0 <=> Succeeded
    /\ status = 2 => (opts.reset /\ Exhausted)
    /\ (~Succeeded /\ ~Exhausted) => status = 1

\* C7 amended: the exit status is 0 exactly when the operation succeeded;
\* it is 2 exactly when a --reset run failed after option validation, by
\* reset exhaustion or by a readiness timeout; it is 1 exactly for a usage
\* error, a tunnel that could not be started, and a readiness timeout or a
\* set-location failure of a run without --reset.
C7_ExitCodes ==
  ExitedUnsignalled =>
    /\ status \in {0, 1, 2}
    /\ status = 0 <=> Succeeded
    /\ status = 2 <=> (opts.reset /\ (Exhausted \/ ReadinessTimeout))
    /\ status = 1 <=> \/ UsageShown
                      \/ TunnelStartFailed
                      \/ ~opts.reset /\ (ReadinessTimeout \/ SetFailed)

\* A --reset run whose tunnel never became ready ends with status 2.
C7_Witness ==
  /\ ExitedUnsignalled
  /\ opts.reset
  /\ ReadinessTimeout
  /\ launched = <<>>
  /\ status = 2

\* The first turn of main has run (every path of it logs something).
Started == out # <<>>
NothingSpawned == ~tunnelProc.spawned /\ launched = <<>> /\ fg = NoChild
SkipNotice == <<"[tunneld] skipped (--no-tunnel).">>

\* C8: with --no-tunnel and coordinates (flags or positional) or --reset,
\* no tunnel is spawned and waitForPort is never called; the skip notice is
\* logged, the set or reset child is launched right after it, and the
\* process exits 0 when that child succeeds.
C8_NoTunnel ==
  (Started /\ opts.noTunnel /\ ~opts.help
     /\ (opts.reset \/ (~IsNullish(opts.lat) /\ ~IsNullish(opts.lon)))) =>
    /\ ~tunnelProc.spawned
    /\ ~handlers
    /\ poller.phase = "idle"
    /\ kills = <<>>
    /\ launched # <<>>
    /\ \E i \in 1..Len(out) - 1 :
         /\ out[i] = SkipNotice
         /\ out[i + 1][1] \in {"[simulate] running:", "[reset] running:"}
         /\ \A j \in 1..i - 1 : out[j][1] = "[config] loaded:"
    /\ (ExitedUnsignalled /\ Succeeded) => status = 0

\* The positional command line of the tests, after it succeeded.
C8_Witness ==
  /\ argv = <<"--no-tunnel", "37", "127">>
  /\ opts.lat = "37" /\ opts.lon = "127"
  /\ out = << SkipNotice, <<"[simulate] running:", "set", "--">>, <<"[simulate] done.">> >>
  /\ pc = "exited"
  /\ status = 0

\* C9: a subprocess (tunnel, set or reset) is spawned only if reset is true
\* or both coordinates are non-null; a run without arguments, or without
\* --reset and with a coordinate still unset after the config file was
\* applied, prints the usage text, exits with code 1 and spawns nothing.
C9_OptionsInvariant ==
  /\ (tunnelProc.spawned \/ launched # <<>> \/ fg # NoChild) =>
       (opts.reset \/ (~IsNullish(opts.lat) /\ ~IsNullish(opts.lon)))
  /\ (Started /\ (argv = <<>> \/ (~opts.reset /\ (IsNullish(opts.lat) \/ IsNullish(opts.lon))))) =>
       /\ out[Len(out)] = <<"Usage:">>
       /\ pc = "exited"
       /\ status = 1
       /\ NothingSpawned

\* A config file was loaded and the longitude is still unset: usage.
C9_Witness ==
  /\ cfg.loaded = CwdSimloc
  /\ opts.lat = "37"
  /\ opts.lon = Null
  /\ out = << <<"[config] loaded:", "ios-simloc.config.json">>, <<"Usage:">> >>
  /\ status = 1
  /\ NothingSpawned

\* What C10 promises once a help flag is seen.
HelpShortCircuits ==
  /\ out = << <<"Usage:">> >>
  /\ pc = "exited"
  /\ ~cfg.called
  /\ NothingSpawned

\* C10 as stated: every argument list that contains --help or -h at any
\* position prints usage and exits before config loading, validation or
\* any spawn.
C10_AsStated ==
  (Started /\ \E i \in DOMAIN argv : argv[i] \in {"--help", "-h"}) =>
    HelpShortCircuits

\* The flags whose next token is their value, whatever it looks like.
TakesValue(a) == a \in {"--host", "--port", "--lat", "--lon", "--config"}
\* The positions of an argument list that are not the value of a flag.
RECURSIVE FlagPositions(_, _)
FlagPositions(args, i) ==
  IF i > Len(args) THEN {}
  ELSE {i} \cup FlagPositions(args, IF TakesValue(args[i]) THEN i + 2 ELSE i + 1)

\* C10 amended: every argument list in which --help or -h occurs at a
\* position that is not the value of --host, --port, --lat, --lon or
\* --config prints usage and exits before config loading, validation or
\* any spawn.
C10_HelpFirst ==
  (Started /\ \E i \in FlagPositions(argv, 1) : argv[i] \in {"--help", "-h"}) =>
    HelpShortCircuits

\* -h after options that would otherwise start a reset run.
C10_Witness ==
  /\ argv = <<"--reset", "--no-tunnel", "-h">>
  /\ opts.reset /\ opts.noTunnel /\ opts.help
  /\ HelpShortCircuits

\* The options as parseArgs leaves them, before any config file.
Parsed == parseArgs(argv)
\* The first turn has run and main asked for a config file: arguments were
\* given, none asked for help, reset was not requested and a coordinate
\* was missing.
NeedsConfig ==
  /\ Started
  /\ argv # <<>>
  /\ ~Parsed.help
  /\ ~Parsed.reset
  /\ IsNullish(Parsed.lat) \/ IsNullish(Parsed.lon)
\* The candidate files in search order: the --config path, if one was
\* given, and then the three default locations.
SearchOrder ==
  (IF Parsed.config # Null THEN <<pathResolve(Parsed.config)>> ELSE <<>>)
    \o <<CwdSimloc, CwdGeneric, HomeSimloc>>
Exists(p) == p \in DOMAIN files /\ files[p].kind # "absent"
ParsesAsJson(p) == p \in DOMAIN files /\ files[p].kind = "json"
\* The first element of a non-empty set of indices.
Least(S) == CHOOSE i \in S : \A j \in S : i <= j
\* The coordinates are those of the command line, completed from object c.
CoordsFilledFrom(c) ==
  /\ opts.lat = IF IsNullish(Parsed.lat) /\ c.lat.t # "none"
                THEN (IF c.lat.t = "num" THEN ToString(c.lat.n) ELSE c.lat.s)
                ELSE Parsed.lat
  /\ opts.lon = IF IsNullish(Parsed.lon) /\ c.lon.t # "none"
                THEN (IF c.lon.t = "num" THEN ToString(c.lon.n) ELSE c.lon.s)
                ELSE Parsed.lon
\* No config file was applied: the options are those of the command line.
NothingApplied == cfg.loaded = NoPath /\ opts = Parsed

\* C11 as stated: when a coordinate is missing and reset is not requested,
\* the candidates are considered in the order --config path,
\* ./ios-simloc.config.json, ./config.json, per-user file, and the first
\* one that exists and parses as JSON is the one applied; a candidate that
\* exists and does not parse does not stop the search.
C11_AsStated ==
  NeedsConfig =>
    LET good == {i \in DOMAIN SearchOrder : ParsesAsJson(SearchOrder[i])}
    IN  IF good = {} THEN NothingApplied
        ELSE /\ cfg.loaded = SearchOrder[Least(good)]
             /\ CoordsFilledFrom(files[SearchOrder[Least(good)]].cfg)

\* C11 amended: when a coordinate is missing and reset is not requested,
\* exactly one candidate is read: the --config path when one was given,
\* else the first of ./ios-simloc.config.json, ./config.json and the
\* per-user file that exists.  Its values are applied when it parses as
\* JSON; when it does not parse (or no candidate exists) nothing is applied
\* and no later candidate is tried.
C11_ConfigSearch ==
  NeedsConfig =>
    LET present == {i \in 1..3 : Exists(SearchOrder[Len(SearchOrder) - 3 + i])}
        chosen == IF Parsed.config # Null THEN pathResolve(Parsed.config)
                  ELSE IF present = {} THEN NoPath
                  ELSE SearchOrder[Least(present)]
    IN  /\ cfg.called
        /\ cfg.read = chosen
        /\ IF ParsesAsJson(chosen)
           THEN /\ cfg.loaded = chosen
                /\ CoordsFilledFrom(files[chosen].cfg)
                /\ out[1] = <<"[config] loaded:", chosen.name>>
           ELSE /\ NothingApplied
                /\ out = << <<"Usage:">> >>
                /\ status = 1

\* ./ios-simloc.config.json exists and is no JSON, ./config.json is a
\* complete config file: the first is read, nothing is applied, usage.
C11_Witness ==
  /\ argv = <<"37">>
  /\ files[CwdSimloc] = Unparsable
  /\ files[CwdGeneric] = JsonFile(FullCfg)
  /\ cfg.read = CwdSimloc
  /\ cfg.loaded = NoPath
  /\ opts.lon = Null
  /\ out = << <<"Usage:">> >>
  /\ status = 1

\* Object c has no value for a coordinate the command line left unset.
LeavesCoordUnset(c) ==
  \/ IsNullish(Parsed.lat) /\ c.lat.t = "none"
  \/ IsNullish(Parsed.lon) /\ c.lon.t = "none"

\* C12: when --config <path> is given, that path is the only file read,
\* whatever the default locations hold; when it is missing, is no JSON or
\* leaves a coordinate unset, the run ends with the usage text and exit
\* status 1, nothing is spawned and no default-location file is read or
\* applied.
C12_ExplicitOnly ==
  (Started /\ Parsed.config # Null) =>
    LET given == pathResolve(Parsed.config)
    IN  /\ cfg.read \in {NoPath, given}
        /\ cfg.loaded \in {NoPath, given}
        /\ NeedsConfig =>
             /\ cfg.read = given
             /\ (~Exists(given) \/ ~ParsesAsJson(given)
                   \/ LeavesCoordUnset(files[given].cfg)) =>
                  /\ out[Len(out)] = <<"Usage:">>
                  /\ pc = "exited"
                  /\ status = 1
                  /\ NothingSpawned
                  /\ IsNullish(opts.lat) \/ IsNullish(opts.lon)

\* --config names a file without latitude while ./ios-simloc.config.json is
\* a complete config file: the named file is loaded, usage follows.
C12_Witness ==
  /\ argv = <<"--config", "my.json">>
  /\ files[ExplicitPath] = JsonFile(LonOnlyCfg)
  /\ files[CwdSimloc] = JsonFile(FullCfg)
  /\ cfg.read = ExplicitPath
  /\ cfg.loaded = ExplicitPath
  /\ opts.lat = Null
  /\ opts.lon = "-27"
  /\ out = << <<"[config] loaded:", "my.json">>, <<"Usage:">> >>
  /\ status = 1

\* The command line holds `flag` followed by a value.
SuppliedBy(flag) ==
  \E i \in FlagPositions(argv, 1) : argv[i] = flag /\ i < Len(argv)
\* The coordinates the command line supplied are those of the options.
CliCoordsKept ==
  /\ ~IsNullish(Parsed.lat) => opts.lat = Parsed.lat
  /\ ~IsNullish(Parsed.lon) => opts.lon = Parsed.lon

\* C13 as stated: for each of lat, lon, host and port, a value supplied on
\* the command line (by flag or positionally) is never replaced by a value
\* of the config file.
C13_AsStated ==
  Started =>
    /\ CliCoordsKept
    /\ SuppliedBy("--host") => opts.host = Parsed.host
    /\ SuppliedBy("--port") => opts.port = Parsed.port

\* C13 amended: a latitude or longitude supplied on the command line is
\* never replaced by the config file, and neither is a host other than
\* 127.0.0.1 or a port other than 49151; a host or port that is supplied on
\* the command line with the value of its default counts as unset and is
\* replaced by the value of the loaded config file, if that has one.
C13_Precedence ==
  Started =>
    /\ CliCoordsKept
    /\ Parsed.host # "127.0.0.1" => opts.host = Parsed.host
    /\ Parsed.port # 49151 => opts.port = Parsed.port
    /\ cfg.loaded = NoPath => opts = Parsed
    /\ (cfg.loaded # NoPath /\ SuppliedBy("--host") /\ Parsed.host = "127.0.0.1"
          /\ files[cfg.loaded].cfg.host.t = "str") =>
         opts.host = files[cfg.loaded].cfg.host.s
    /\ (cfg.loaded # NoPath /\ SuppliedBy("--port") /\ Parsed.port = 49151
          /\ files[cfg.loaded].cfg.port.t = "num") =>
         opts.port = files[cfg.loaded].cfg.port.n

\* --host 127.0.0.1 on the command line, host 10.0.0.1 in ./config.json: the
\* tunnel is started for 10.0.0.1.
C13_Witness ==
  /\ argv = <<"--host", "127.0.0.1", "37">>
  /\ cfg.loaded = CwdGeneric
  /\ files[CwdGeneric] = JsonFile(FullCfg)
  /\ opts.host = "10.0.0.1"
  /\ opts.lat = "37"
  /\ opts.lon = "127"
  /\ tunnelProc.spawned

\* The flags parseArgs knows.
RecognisedFlags ==
  {"--host", "--port", "--lat", "--lon", "--reset", "--no-tunnel", "--config",
   "--help", "-h"}
\* A token in flag position that looks like a flag and is none of them (a
\* negative number is not counted as a flag).
InvalidFlag(a) ==
  /\ a \in {"--host", "--port", "--lat", "--lon", "--reset", "--no-tunnel",
            "--config", "--help", "-h", "--verbose", "-27"}
  /\ a \notin RecognisedFlags
  /\ a # "-27"
HasInvalidFlag == \E i \in FlagPositions(argv, 1) : InvalidFlag(argv[i])

\* C14: an argument list that contains an unrecognised flag is answered
\* with the usage text and exit status 1, and no subprocess is spawned, as
\* for missing coordinates.
C14_InvalidFlagIsUsageError ==
  (Started /\ HasInvalidFlag) =>
    /\ out[Len(out)] = <<"Usage:">>
    /\ pc = "exited"
    /\ status = 1
    /\ NothingSpawned

\* How often a line that starts with `tag` was logged.
TimesLogged(tag) == Cardinality({i \in DOMAIN out : out[i][1] = tag})
\* The foreground children that were launched and have not ended yet.
ActiveForeground == Len(launched) - Len(results)

\* C15: at every moment at most one tunnel process and at most one
\* foreground process (set, or one reset candidate) is active: spawnTunneld
\* runs at most once per run, every launched foreground child but the last
\* has ended, and a reset candidate is launched only when the previous one
\* has ended.
C15_OneAtATime ==
  /\ TimesLogged("[tunneld] launching:") <= 1
  /\ tunnelProc.spawned <=> TimesLogged("[tunneld] launching:") = 1
  /\ tunnelProc.running => tunnelProc.spawned
  /\ TimesLogged("[simulate] running:") + TimesLogged("[reset] running:") = Len(launched)
  /\ ActiveForeground \in {0, 1}
  /\ fg.running <=> ActiveForeground = 1
  /\ \A i \in 1..Len(launched) - 1 : i <= Len(results)
  /\ TimesLogged("[simulate] running:") <= 1
  /\ TimesLogged("[simulate] running:") = 1 => TimesLogged("[reset] running:") = 0

\* The third reset candidate runs behind a live tunnel after the first two
\* have ended.
C15_Witness ==
  /\ tunnelProc.running
  /\ launched = <<"reset", "clear", "unset">>
  /\ results = <<"failed", "nostart">>
  /\ fg.running
  /\ fg.sub = "unset"
  /\ ActiveForeground = 1

\* The set-location child was launched and has ended.
SetEnded == launched = <<"set">> /\ results # <<>>
GenericExitMessage(e) == Len(e) = 2 /\ e[1] = "simulate-location exited with code"
FailedToStart == <<"Failed to start pymobiledevice3:">>
\* The promise of runSimulateLocation was settled once: one outcome was
\* recorded, main went on once and logged one outcome line.
SettledOnce ==
  /\ Len(results) = 1
  /\ ~fg.running
  /\ pc \in {"done", "exited"}
  /\ TimesLogged("[simulate] done.") + TimesLogged("[error]") = 1

\* C16 as stated: exit code 0 resolves; any other exit code rejects with
\* the captured standard-error text if that is non-empty, else with the
\* generic "exited with code N" message; a failure to start rejects with
\* the "Failed to start" error; the promise is settled exactly once.
C16_AsStated ==
  (launched = <<"set">>) =>
    /\ Len(results) <= 1
    /\ SetEnded =>
         /\ SettledOnce
         /\ results = <<"ok">> => err = <<>> /\ Logged(<<"[simulate] done.">>)
         /\ results = <<"failed">> =>
              IF fg.stderr # ""
              THEN err = <<"boom">> /\ fg.stderr = "boom\n"
              ELSE GenericExitMessage(err)
         /\ results = <<"nostart">> => err = FailedToStart

\* C16 amended: exit code 0 resolves; any other exit code rejects with the
\* captured standard-error text, trimmed of surrounding whitespace, if that
\* trimmed text is non-empty, else (nothing captured, or white space only)
\* with the generic "exited with code N" message; a failure to start
\* rejects with the "Failed to start" error; the promise is settled exactly
\* once.
C16_SetOutcome ==
  (launched = <<"set">>) =>
    /\ Len(results) <= 1
    /\ SetEnded =>
         /\ SettledOnce
         /\ results = <<"ok">> =>
              /\ err = <<>>
              /\ exitCode = 0
              /\ Logged(<<"[simulate] done.">>)
         /\ results = <<"failed">> =>
              /\ fg.stderr = "boom\n" => err = <<"boom">>
              /\ fg.stderr \in {"", "\n"} => GenericExitMessage(err)
              /\ Logged(<<"[error]">> \o err)
              /\ exitCode = 1
         /\ results = <<"nostart">> =>
              /\ err = FailedToStart
              /\ Logged(<<"[error]">> \o err)
              /\ exitCode = 1

\* The child wrote a newline to its standard error and exited with code 1:
\* the generic message.
C16_Witness ==
  /\ launched = <<"set">>
  /\ fg.stderr = "\n"
  /\ results = <<"failed">>
  /\ err = <<"simulate-location exited with code", "1">>
  /\ exitCode = 1
  /\ pc = "done"

\* C17: in waitForPort an attempt that ends without a connection, by its
\* per-attempt timeout or by a connection error alike, is never followed at
\* once by a new attempt: the poller rejects if more than the overall
\* timeout has elapsed when the attempt ended and else waits; a new attempt
\* starts only from waiting, one retry interval later.
C17_RetryPolicy ==
  [][ pc = "waitForPort" =>
        /\ (poller.phase = "connecting" /\ poller'.phase # "resolved") =>
             /\ poller'.phase \in {"sleeping", "rejected"}
             /\ poller'.phase = "rejected" <=> poller'.elapsed > poller.timeoutMs
             /\ poller'.phase = "sleeping" <=> poller'.elapsed <= poller.timeoutMs
             /\ poller'.elapsed - poller.elapsed \in 0..2000
        /\ poller'.phase = "connecting" =>
             /\ poller.phase = "sleeping"
             /\ poller.elapsed <= poller.timeoutMs
             /\ poller'.elapsed = poller.elapsed + poller.intervalMs
        /\ poller'.timeoutMs = poller.timeoutMs
        /\ poller'.intervalMs = poller.intervalMs ]_vars

\* The third attempt is under way: the first ran into the per-attempt
\* timeout, the second was refused after 1 ms, each followed by the retry
\* interval.
C17_Witness ==
  /\ pc = "waitForPort"
  /\ poller.phase = "connecting"
  /\ poller.timeoutMs = 4000
  /\ poller.intervalMs = 250
  /\ poller.elapsed = 2000 + 250 + 1 + 250

\* main caught an error past option validation and ran its finally block.
FailedPastValidation == pc = "done" /\ err # <<>>

\* C18: after a failure past option validation (readiness timeout,
\* set-location failure, reset exhaustion) the error is logged at the top
\* level, SIGTERM is sent to the tunnel process if there is one, and the
\* process eventually exits with a non-zero status, also when the SIGTERM
\* has no effect or cannot be delivered.
C18_FailureExits ==
  /\ [](FailedPastValidation =>
          /\ Logged(<<IF opts.reset THEN "[reset] failed:" ELSE "[error]">> \o err)
          /\ exitCode # 0
          /\ (tunnelProc.spawned /\ tunnelProc.pid) => kills # <<>>)
  /\ (FailedPastValidation ~> (pc = "exited" /\ status # 0))

\* C19: provided every launched candidate eventually exits or fails to
\* start, runResetLocation, once it has launched its first candidate,
\* eventually ends in Success (a candidate exited with code 0) or in
\* AllFailed (the aggregate error); it launches at most four candidates,
\* each at most once and none after a later one.
C19_DriverTerminates ==
  /\ [](/\ Len(launched) <= 4
        /\ \A i \in DOMAIN launched :
             launched[i] = <<"reset", "clear", "unset", "stop">>[i])
  /\ [][(launched' # launched) =>
          /\ Len(launched') = Len(launched) + 1
          /\ fg'.idx = fg.idx + 1]_vars
  /\ (launched # <<>>) ~>
       \/ Succeeded /\ ~fg.running /\ err = <<>>
       \/ Exhausted /\ ~fg.running /\ err = AggregateError

\* AllFailed: the fourth candidate could not be started after the first
\* three exited with an error.
C19_Witness ==
  /\ launched = <<"reset", "clear", "unset", "stop">>
  /\ results = <<"failed", "failed", "failed", "nostart">>
  /\ ~fg.running
  /\ err = AggregateError
  /\ pc = "done"

\* C20: in waitForPort at most one socket or retry timer is pending at any
\* time; a socket that ends triggers exactly one of resolve, retry timer
\* and reject, and is destroyed; the promise is settled at most once, and
\* once it is settled nothing is pending and no attempt is started.
C20_OnePending ==
  /\ [](pc = "waitForPort" =>
          /\ poller.sockets + poller.timers \in {0, 1}
          /\ poller.settles \in {0, 1}
          /\ poller.settles = 1 <=> poller.phase \in {"resolved", "rejected"}
          /\ poller.settles = 1 => poller.sockets = 0 /\ poller.timers = 0
          /\ poller.settles = 0 => poller.sockets + poller.timers = 1)
  /\ [][pc = "waitForPort" =>
          /\ poller.sockets = 1 =>
               /\ poller'.sockets = 0
               /\ (poller'.settles - poller.settles)
                    + (poller'.timers - poller.timers) = 1
          /\ poller.timers = 1 =>
               poller'.timers = 0 /\ poller'.sockets = 1 /\ poller'.settles = 0
          /\ poller'.settles >= poller.settles
          /\ poller.settles = 1 => poller' = poller]_vars

\* The promise was rejected after two attempts; nothing is pending.
C20_Witness ==
  /\ pc = "waitForPort"
  /\ poller.phase = "rejected"
  /\ poller.timeoutMs = 2000
  /\ poller.elapsed = 1 + 250 + 2000
  /\ poller.settles = 1
  /\ poller.sockets = 0
  /\ poller.timers = 0

\* C21: during one run SIGTERM is sent to the pid of the tunnel process at
\* most once, and never when the tunnel process has already exited,
\* whatever the order of the finally block, the SIGINT/SIGTERM handlers and
\* an early exit of the tunnel process.
C21_SigtermOnce ==
  /\ Len(kills) <= 1
  /\ \A i \in DOMAIN kills : kills[i].tunnelRunning

\* C22: when a captured child (set-location or a reset candidate) has
\* written to its standard error and exits with a non-zero code, the "exit"
\* handler builds its message from everything the child wrote: every
\* "data" event of the stream has been handled before it.
C22_StderrComplete ==
  [][(pc = "child" /\ fg.running /\ fg.wrote # ""
        /\ Len(results') = Len(results) + 1
        /\ results'[Len(results')] = "failed") =>
       fg.stderr = fg.wrote]_vars
====
